---- MODULE Spec2Model ----
(***************************************************************************)
(* Model of the knowledge-graph tools of mcp_neo4j_knowledge_graph:        *)
(* create_entities, create_relations, update_entities, delete_entities and *)
(* search_entities, each run against a property-graph store.               *)
(*                                                                         *)
(* The store is the Neo4j database the tools talk to: nodes with an        *)
(* identity, a set of labels and a property map; relationships with an     *)
(* identity, a type, a start node and an end node.  Every Cypher query of  *)
(* the source is translated to an operator over that store.                *)
(*                                                                         *)
(* Text is a sequence of one-character strings, so that splitting,         *)
(* containment, case folding and quoting can be computed.                  *)
(***************************************************************************)
EXTENDS Integers, Sequences, FiniteSets, TLC

VARIABLES
    nodes,      \* node identity -> [labels, props]            (the store)
    rels,       \* relationship identity -> [type, from, to]   (the store)
    call,       \* the last tool call: its name and arguments
    pre,        \* the store as it was when the last call started
    outcome,    \* "idle" | "return" | "raise" : how the last call ended
    result,     \* the value the last call returned
    session     \* "none" | "open" | "closed" : the session of the last call

vars == <<nodes, rels, call, pre, outcome, result, session>>

----------------------------------------------------------------------------
(* Bounds of the model *)

MaxNodes == 3       \* nodes the store can hold
MaxRels == 2        \* relationships the store can hold
MaxBatch == 2       \* requests in one call

----------------------------------------------------------------------------
(* Values: what a Cypher expression or a Python variable can hold *)

Null == [k |-> "null"]
Str(s) == [k |-> "str", s |-> s]
IntV(n) == [k |-> "int", n |-> n]
BoolV(b) == [k |-> "bool", b |-> b]
Map(m) == [k |-> "map", m |-> m]
Name(t) == [k |-> "name", name |-> t]

\* Optional[List[...]] fields of the result dataclasses
None == [k |-> "None"]
List(items) == [k |-> "list", items |-> items]

EmptyMap == [x \in {} |-> Null]

----------------------------------------------------------------------------
(* The store *)

Store(ns, rs) == [nodes |-> ns, rels |-> rs]

EmptyStore == Store(EmptyMap, EmptyMap)

\* n.key : a missing property reads as null
Prop(st, n, key) ==
    IF key \in DOMAIN st.nodes[n].props THEN st.nodes[n].props[key] ELSE Null

\* (n)-[r]-() : the relationships incident to node n, either direction
Incident(st, n) ==
    {r \in DOMAIN st.rels : st.rels[r].from = n \/ st.rels[r].to = n}

\* The store hands out the smallest free identities
FreeIds(used, max, count) ==
    CHOOSE S \in SUBSET ((1..max) \ used) :
        /\ Cardinality(S) = count
        /\ \A i \in S : \A j \in ((1..max) \ used) \ S : i < j

RECURSIVE SetToSeq(_)
SetToSeq(S) ==
    IF S = {} THEN <<>>
    ELSE LET m == CHOOSE x \in S : \A y \in S : x <= y
         IN <<m>> \o SetToSeq(S \ {m})

\* {id: n.id, type: labels(n), properties: properties(n)}
EntityMap(st, n) ==
    [id |-> Prop(st, n, "id"),
     type |-> st.nodes[n].labels,
     properties |-> st.nodes[n].props]

\* {type: type(r), from: startNode(r).id, to: endNode(r).id, properties: properties(r)}
RelMap(st, r) ==
    [type |-> Name(st.rels[r].type),
     from |-> Prop(st, st.rels[r].from, "id"),
     to |-> Prop(st, st.rels[r].to, "id"),
     properties |-> Map(EmptyMap)]

\* The same map built from the null r of an OPTIONAL MATCH that found nothing:
\* a map whose values are all null is not itself null, so collect() keeps it
NullRelMap ==
    [type |-> Null, from |-> Null, to |-> Null, properties |-> Null]

\* MATCH (n:Entity) WHERE n.id IN $entity_ids
MatchEntitiesIn(st, idset) ==
    {n \in DOMAIN st.nodes :
        /\ "Entity" \in st.nodes[n].labels
        /\ Prop(st, n, "id").k = "str"
        /\ Prop(st, n, "id").s \in idset}

\* MATCH (n:Entity {id: $id})
MatchEntity(st, id) == MatchEntitiesIn(st, {id})

\* Python: value in entity_ids, for a value read from a record
InIds(v, idset) == v.k = "str" /\ v.s \in idset

Range(seq) == {seq[i] : i \in DOMAIN seq}

----------------------------------------------------------------------------
(* delete_entities *)

ORPHAN_ERROR == "Cannot delete entities as it would create orphaned relationships. Use cascade=True to delete relationships as well."
NOT_FOUND_ERROR == "Entity not found"

DeletionResult(success, de, dr, errors, ie, ir) ==
    [success |-> success,
     deleted_entities |-> de,
     deleted_relationships |-> dr,
     errors |-> errors,
     impacted_entities |-> ie,
     impacted_relationships |-> ir]

\* A variant that calls a relationship orphaned only when it leaves the set
_analyze_deletion_impact_LeavingOnly(st, idset) ==
    LET matched == MatchEntitiesIn(st, idset)
        entities == {EntityMap(st, n) : n \in matched}
        touched == UNION {Incident(st, n) : n \in matched}
        relations ==
            {RelMap(st, r) : r \in touched}
            \cup (IF \E n \in matched : Incident(st, n) = {}
                  THEN {NullRelMap} ELSE {})
        orphaned_relations ==
            {rel \in relations :
                InIds(rel.from, idset) /\ ~InIds(rel.to, idset)}
    IN [entities |-> entities,
        relations |-> relations,
        orphaned_relations |-> orphaned_relations]

_analyze_deletion_impact(st, idset) ==
    LET matched == MatchEntitiesIn(st, idset)
        entities == {EntityMap(st, n) : n \in matched}
        touched == UNION {Incident(st, n) : n \in matched}
        relations ==
            {RelMap(st, r) : r \in touched}
            \cup (IF \E n \in matched : Incident(st, n) = {}
                  THEN {NullRelMap} ELSE {})
        orphaned_relations ==
            {rel \in relations :
                InIds(rel.from, idset) # InIds(rel.to, idset)}
    IN [entities |-> entities,
        relations |-> relations,
        orphaned_relations |-> orphaned_relations]

\* A variant that deletes the nodes and leaves their relationships: DELETE n
CascadeDeleteQuery_NodesOnly(st, idset) ==
    LET matched == MatchEntitiesIn(st, idset)
    IN [st |-> Store([n \in DOMAIN st.nodes \ matched |-> st.nodes[n]],
                     st.rels),
        deleted_entities |-> Cardinality(matched)]

\* A variant that follows only outgoing relationships: (n)-[r]->()
CascadeDeleteQuery_OutgoingOnly(st, idset) ==
    LET matched == MatchEntitiesIn(st, idset)
        gone == {r \in DOMAIN st.rels : st.rels[r].from \in matched}
    IN [st |-> Store([n \in DOMAIN st.nodes \ matched |-> st.nodes[n]],
                     [r \in DOMAIN st.rels \ gone |-> st.rels[r]]),
        deleted_entities |-> Cardinality(matched)]

\* MATCH (n:Entity) WHERE n.id IN $entity_ids WITH n
\* OPTIONAL MATCH (n)-[r]-() DELETE n, r
CascadeDeleteQuery(st, idset) ==
    LET matched == MatchEntitiesIn(st, idset)
        gone == UNION {Incident(st, n) : n \in matched}
    IN [st |-> Store([n \in DOMAIN st.nodes \ matched |-> st.nodes[n]],
                     [r \in DOMAIN st.rels \ gone |-> st.rels[r]]),
        deleted_entities |-> Cardinality(matched)]

\* A variant without the NOT (n)-[]-() condition
PlainDeleteQuery_AnyNode(st, idset) ==
    LET matched == MatchEntitiesIn(st, idset)
    IN [st |-> Store([n \in DOMAIN st.nodes \ matched |-> st.nodes[n]],
                     st.rels),
        deleted_entities |-> Cardinality(matched)]

\* MATCH (n:Entity) WHERE n.id IN $entity_ids AND NOT (n)-[]-() DELETE n
PlainDeleteQuery(st, idset) ==
    LET matched == {n \in MatchEntitiesIn(st, idset) : Incident(st, n) = {}}
    IN [st |-> Store([n \in DOMAIN st.nodes \ matched |-> st.nodes[n]],
                     st.rels),
        deleted_entities |-> Cardinality(matched)]

\* Variants of delete_entities_impl, each with one slip
delete_entities_impl_DryRunDeletes(st, requests, dry_run) ==
    LET entity_ids == {requests[i].id : i \in DOMAIN requests}
        impact == _analyze_deletion_impact(st, entity_ids)
        run == CascadeDeleteQuery(st, entity_ids)
    IN [st |-> run.st,
        result |-> IF dry_run
                   THEN DeletionResult(TRUE, {}, {}, None,
                                       List(impact.entities), List(impact.relations))
                   ELSE DeletionResult(run.deleted_entities > 0, impact.entities,
                                       impact.relations, None, None, None)]

delete_entities_impl_NoOrphanGuard(st, requests, dry_run) ==
    LET entity_ids == {requests[i].id : i \in DOMAIN requests}
        cascade == \E i \in DOMAIN requests : requests[i].cascade
        impact == _analyze_deletion_impact(st, entity_ids)
        run == IF cascade THEN CascadeDeleteQuery(st, entity_ids)
               ELSE PlainDeleteQuery(st, entity_ids)
    IN IF dry_run
       THEN [st |-> st,
             result |-> DeletionResult(TRUE, {}, {}, None,
                                       List(impact.entities),
                                       List(impact.relations))]
       ELSE IF run.deleted_entities = 0
       THEN [st |-> run.st,
             result |-> DeletionResult(FALSE, {}, {},
                                       List(<<NOT_FOUND_ERROR>>), None, None)]
       ELSE [st |-> run.st,
             result |-> DeletionResult(TRUE, impact.entities,
                                       IF cascade THEN impact.relations ELSE {},
                                       None, None, None)]

delete_entities_impl_NoNotFound(st, requests, dry_run) ==
    LET entity_ids == {requests[i].id : i \in DOMAIN requests}
        cascade == \E i \in DOMAIN requests : requests[i].cascade
        impact == _analyze_deletion_impact(st, entity_ids)
        run == IF cascade THEN CascadeDeleteQuery(st, entity_ids)
               ELSE PlainDeleteQuery(st, entity_ids)
    IN IF dry_run
       THEN [st |-> st,
             result |-> DeletionResult(TRUE, {}, {}, None,
                                       List(impact.entities),
                                       List(impact.relations))]
       ELSE IF ~cascade /\ impact.orphaned_relations # {}
       THEN [st |-> st,
             result |-> DeletionResult(FALSE, {}, {},
                                       List(<<ORPHAN_ERROR>>), None, None)]
       ELSE [st |-> run.st,
             result |-> DeletionResult(TRUE, impact.entities,
                                       IF cascade THEN impact.relations ELSE {},
                                       None, None, None)]

\* A variant that cascades only when every request asks for it
delete_entities_impl_CascadeAll(st, requests, dry_run) ==
    LET entity_ids == {requests[i].id : i \in DOMAIN requests}
        cascade == \A i \in DOMAIN requests : requests[i].cascade
        impact == _analyze_deletion_impact(st, entity_ids)
        run == IF cascade THEN CascadeDeleteQuery(st, entity_ids)
               ELSE PlainDeleteQuery(st, entity_ids)
    IN IF dry_run
       THEN [st |-> st,
             result |-> DeletionResult(TRUE, {}, {}, None,
                                       List(impact.entities),
                                       List(impact.relations))]
       ELSE IF ~cascade /\ impact.orphaned_relations # {}
       THEN [st |-> st,
             result |-> DeletionResult(FALSE, {}, {},
                                       List(<<ORPHAN_ERROR>>), None, None)]
       ELSE IF run.deleted_entities = 0
       THEN [st |-> run.st,
             result |-> DeletionResult(FALSE, {}, {},
                                       List(<<NOT_FOUND_ERROR>>), None, None)]
       ELSE [st |-> run.st,
             result |-> DeletionResult(TRUE, impact.entities,
                                       IF cascade THEN impact.relations ELSE {},
                                       None, None, None)]

delete_entities_impl(st, requests, dry_run) ==
    LET entity_ids == {requests[i].id : i \in DOMAIN requests}
        cascade == \E i \in DOMAIN requests : requests[i].cascade
        impact == _analyze_deletion_impact(st, entity_ids)
        run == IF cascade THEN CascadeDeleteQuery(st, entity_ids)
               ELSE PlainDeleteQuery(st, entity_ids)
    IN IF dry_run
       THEN [st |-> st,
             result |-> DeletionResult(TRUE, {}, {}, None,
                                       List(impact.entities),
                                       List(impact.relations))]
       ELSE IF ~cascade /\ impact.orphaned_relations # {}
       THEN [st |-> st,
             result |-> DeletionResult(FALSE, {}, {},
                                       List(<<ORPHAN_ERROR>>), None, None)]
       ELSE IF run.deleted_entities = 0
       THEN [st |-> run.st,
             result |-> DeletionResult(FALSE, {}, {},
                                       List(<<NOT_FOUND_ERROR>>), None, None)]
       ELSE [st |-> run.st,
             result |-> DeletionResult(TRUE, impact.entities,
                                       IF cascade THEN impact.relations ELSE {},
                                       None, None, None)]

----------------------------------------------------------------------------
(* create_entities *)

\* The text of a label or type name, as it is stored in the type property
Chars(name) ==
    CASE name = "Person" -> <<"P", "e", "r">>
      [] name = "Company" -> <<"C", "o">>
      [] name = "Entity" -> <<"E", "n", "t">>
      [] OTHER -> <<>>

\* A variant that takes the name for the id even when an id is supplied
WithDerivedId_NameFirst(properties) ==
    [key \in DOMAIN properties \cup {"id"} |->
        IF key = "id"
        THEN (IF "name" \in DOMAIN properties THEN properties["name"]
              ELSE IF "id" \in DOMAIN properties THEN properties["id"] ELSE Null)
        ELSE properties[key]]

\* properties = dict(entity.properties); id defaults to properties.get("name")
WithDerivedId(properties) ==
    IF "id" \in DOMAIN properties THEN properties
    ELSE [key \in DOMAIN properties \cup {"id"} |->
            IF key = "id"
            THEN (IF "name" \in DOMAIN properties THEN properties["name"] ELSE Null)
            ELSE properties[key]]

\* SET n = $properties : a null value sets no property
NonNull(properties) ==
    [key \in {x \in DOMAIN properties : properties[x] # Null} |-> properties[key]]

\* SET n.type = $type
WithType(properties, type) ==
    [key \in DOMAIN properties \cup {"type"} |->
        IF key = "type" THEN Str(Chars(type)) ELSE properties[key]]

\* A variant that merges on the id: MERGE (n:Entity {id: $properties.id})
CreateNodeQuery_MergeOnId(st, type, properties) ==
    LET same == {i \in DOMAIN st.nodes :
                    /\ "Entity" \in st.nodes[i].labels
                    /\ "id" \in DOMAIN properties
                    /\ Prop(st, i, "id") # Null
                    /\ Prop(st, i, "id") = properties["id"]}
        n == IF same # {} THEN CHOOSE i \in same : \A j \in same : i <= j
             ELSE CHOOSE i \in FreeIds(DOMAIN st.nodes, MaxNodes, 1) : TRUE
        node == [labels |-> {"Entity", type},
                 props |-> WithType(NonNull(properties), type)]
        st2 == Store([i \in DOMAIN st.nodes \cup {n} |->
                        IF i = n THEN node ELSE st.nodes[i]],
                     st.rels)
    IN [st |-> st2,
        record |-> [id |-> Prop(st2, n, "id"),
                    type |-> Prop(st2, n, "type"),
                    properties |-> st2.nodes[n].props]]

\* CREATE (n:Entity) SET n = $properties SET n.type = $type, addLabels(n, [type])
CreateNodeQuery(st, type, properties) ==
    LET n == CHOOSE i \in FreeIds(DOMAIN st.nodes, MaxNodes, 1) : TRUE
        node == [labels |-> {"Entity", type},
                 props |-> WithType(NonNull(properties), type)]
        st2 == Store([i \in DOMAIN st.nodes \cup {n} |->
                        IF i = n THEN node ELSE st.nodes[i]],
                     st.rels)
    IN [st |-> st2,
        record |-> [id |-> Prop(st2, n, "id"),
                    type |-> Prop(st2, n, "type"),
                    properties |-> st2.nodes[n].props]]

RECURSIVE create_entities_impl(_, _)
create_entities_impl(st, entities) ==
    IF entities = <<>> THEN [st |-> st, result |-> [result |-> <<>>]]
    ELSE LET entity == Head(entities)
             q == CreateNodeQuery(st, entity.type, WithDerivedId(entity.properties))
             rest == create_entities_impl(q.st, Tail(entities))
         IN [st |-> rest.st,
             result |-> [result |-> <<q.record>> \o rest.result.result]]

----------------------------------------------------------------------------
(* create_relations *)

\* MATCH (a:Entity {id: $from_id}), (b:Entity {id: $to_id})
\* CREATE (a)-[r:TYPE]->(b) : one relationship per matched pair (a, b)
CreateRelQuery(st, type, from_id, to_id) ==
    LET pairs == MatchEntity(st, from_id) \X MatchEntity(st, to_id)
        Code(p) == (p[1] - 1) * MaxNodes + p[2]
        PairRank(p) == Cardinality({q \in pairs : Code(q) < Code(p)})
        ids == FreeIds(DOMAIN st.rels, MaxRels, Cardinality(pairs))
        IdRank(r) == Cardinality({x \in ids : x < r})
        PairOf(r) == CHOOSE p \in pairs : PairRank(p) = IdRank(r)
    IN [st |-> Store(st.nodes,
                     [r \in DOMAIN st.rels \cup ids |->
                        IF r \in DOMAIN st.rels THEN st.rels[r]
                        ELSE [type |-> type,
                              from |-> PairOf(r)[1],
                              to |-> PairOf(r)[2]]]),
        rows |-> Cardinality(pairs)]

\* How many relationships the query would create
RelQueryRows(st, from_id, to_id) ==
    Cardinality(MatchEntity(st, from_id)) * Cardinality(MatchEntity(st, to_id))

\* A variant that gives up the batch at the first request that matches nothing
RECURSIVE create_relations_impl_StopsAtMissing(_, _)
create_relations_impl_StopsAtMissing(st, relations) ==
    IF relations = <<>> THEN [st |-> st, result |-> [result |-> <<>>]]
    ELSE LET relation == Head(relations)
             q == CreateRelQuery(st, relation.type, relation.from_id, relation.to_id)
             rest == create_relations_impl_StopsAtMissing(q.st, Tail(relations))
             record == [type |-> relation.type,
                        from_id |-> Str(relation.from_id),
                        to_id |-> Str(relation.to_id)]
         IN IF q.rows = 0 THEN [st |-> st, result |-> [result |-> <<>>]]
            ELSE [st |-> rest.st,
                  result |-> [result |-> <<record>> \o rest.result.result]]

RECURSIVE create_relations_impl(_, _)
create_relations_impl(st, relations) ==
    IF relations = <<>> THEN [st |-> st, result |-> [result |-> <<>>]]
    ELSE LET relation == Head(relations)
             q == CreateRelQuery(st, relation.type, relation.from_id, relation.to_id)
             rest == create_relations_impl(q.st, Tail(relations))
             record == [type |-> relation.type,
                        from_id |-> Str(relation.from_id),
                        to_id |-> Str(relation.to_id)]
         IN [st |-> rest.st,
             result |-> [result |->
                 (IF q.rows > 0 THEN <<record>> ELSE <<>>) \o rest.result.result]]

\* The store has room for everything the batch creates
RECURSIVE RelBatchFits(_, _)
RelBatchFits(st, relations) ==
    IF relations = <<>> THEN TRUE
    ELSE LET relation == Head(relations)
         IN /\ Cardinality(DOMAIN st.rels)
                 + RelQueryRows(st, relation.from_id, relation.to_id) <= MaxRels
            /\ RelBatchFits(
                 CreateRelQuery(st, relation.type, relation.from_id, relation.to_id).st,
                 Tail(relations))

----------------------------------------------------------------------------
(* update_entities *)

UpdateEntitiesResult(success, updated_entities, errors) ==
    [success |-> success, updated_entities |-> updated_entities, errors |-> errors]

\* A variant that replaces the property map: SET n = $props
UpdateQuery_ReplacesProperties(st, request) ==
    LET matched == MatchEntity(st, request.id)
        Updated(node) ==
            [labels |-> (node.labels \cup request.add_labels) \ request.remove_labels,
             props |-> [key \in DOMAIN request.properties \ request.remove_properties |->
                          request.properties[key]]]
        st2 == Store([n \in DOMAIN st.nodes |->
                        IF n \in matched THEN Updated(st.nodes[n]) ELSE st.nodes[n]],
                     st.rels)
    IN [st |-> st2,
        records |-> IF matched = {} THEN <<>>
                    ELSE <<EntityMap(st2, CHOOSE n \in matched :
                                            \A m \in matched : n <= m)>>]

\* MATCH (n:Entity) WHERE n.id = $id
\* SET n += $props, n:`label` ... REMOVE n.prop ..., n:`label` ...
UpdateQuery(st, request) ==
    LET matched == MatchEntity(st, request.id)
        Updated(node) ==
            LET set == [key \in DOMAIN node.props \cup DOMAIN request.properties |->
                          IF key \in DOMAIN request.properties
                          THEN request.properties[key] ELSE node.props[key]]
            IN [labels |-> (node.labels \cup request.add_labels)
                              \ request.remove_labels,
                props |-> [key \in DOMAIN set \ request.remove_properties |-> set[key]]]
        st2 == Store([n \in DOMAIN st.nodes |->
                        IF n \in matched THEN Updated(st.nodes[n]) ELSE st.nodes[n]],
                     st.rels)
    IN [st |-> st2,
        \* result.single(): the first row, in the store's match order
        records |-> IF matched = {} THEN <<>>
                    ELSE <<EntityMap(st2, CHOOSE n \in matched :
                                            \A m \in matched : n <= m)>>]

\* The property names of the model that are identifiers of the query language;
\* "first name", with a space, is not
Identifiers == {"id", "name", "age", "type"}

\* session.run raises: f"n.{prop}" is pasted into the REMOVE clause, and the
\* query does not parse when prop is not an identifier
QueryFails(request) == ~(request.remove_properties \subseteq Identifiers)

\* f"Failed to update entity {request.id}: {str(e)}"
UpdateError(request) == [error |-> "Failed to update entity", id |-> request.id]

\* A variant that leaves the loop at the first failing request
RECURSIVE UpdateLoop_StopsAtFailure(_, _)
UpdateLoop_StopsAtFailure(st, requests) ==
    IF requests = <<>> THEN [st |-> st, updated_entities |-> <<>>, errors |-> <<>>]
    ELSE IF QueryFails(Head(requests))
    THEN [st |-> st, updated_entities |-> <<>>,
          errors |-> <<UpdateError(Head(requests))>>]
    ELSE LET q == UpdateQuery(st, Head(requests))
             rest == UpdateLoop_StopsAtFailure(q.st, Tail(requests))
         IN [st |-> rest.st,
             updated_entities |-> q.records \o rest.updated_entities,
             errors |-> rest.errors]

\* for request in requests: try the query; on an exception collect an error
\* and go on.  Each query is its own transaction: a failed one changes
\* nothing, the ones before it stay applied.
RECURSIVE UpdateLoop(_, _)
UpdateLoop(st, requests) ==
    IF requests = <<>> THEN [st |-> st, updated_entities |-> <<>>, errors |-> <<>>]
    ELSE IF QueryFails(Head(requests))
    THEN LET rest == UpdateLoop(st, Tail(requests))
         IN [st |-> rest.st,
             updated_entities |-> rest.updated_entities,
             errors |-> <<UpdateError(Head(requests))>> \o rest.errors]
    ELSE LET q == UpdateQuery(st, Head(requests))
             rest == UpdateLoop(q.st, Tail(requests))
         IN [st |-> rest.st,
             updated_entities |-> q.records \o rest.updated_entities,
             errors |-> rest.errors]

\* f"Entities not found: {', '.join(missing_ids)}"
NotFoundError(missing_ids) == [error |-> "Entities not found", ids |-> missing_ids]

\* A variant without the existence check before the loop
update_entities_impl_NoExistenceCheck(st, requests) ==
    LET loop == UpdateLoop(st, requests)
    IN [st |-> loop.st,
        result |-> UpdateEntitiesResult(loop.errors = <<>>, loop.updated_entities,
                       IF loop.errors = <<>> THEN None ELSE List(loop.errors))]

update_entities_impl(st, requests) ==
    LET entity_ids == {requests[i].id : i \in DOMAIN requests}
        found_ids == {id \in entity_ids : MatchEntity(st, id) # {}}
        missing_ids == entity_ids \ found_ids
        loop == UpdateLoop(st, requests)
    IN IF missing_ids # {}
       THEN [st |-> st,
             result |-> UpdateEntitiesResult(FALSE, <<>>,
                            List(<<NotFoundError(missing_ids)>>))]
       ELSE [st |-> loop.st,
             result |-> UpdateEntitiesResult(loop.errors = <<>>, loop.updated_entities,
                            IF loop.errors = <<>> THEN None ELSE List(loop.errors))]

----------------------------------------------------------------------------
(* search_entities *)

SearchEntityRequest(search_term, entity_type, properties, include_relationships, fuzzy_match) ==
    [search_term |-> search_term,
     entity_type |-> entity_type,
     properties |-> properties,
     include_relationships |-> include_relationships,
     fuzzy_match |-> fuzzy_match]

\* Python truthiness of an Optional[str] and of an Optional[List[str]]
TruthyStr(v) == v # None /\ v.s # <<>>
\* A variant that takes an empty list for a given one
TruthyList_NotNone(v) == v # None
TruthyList(v) == v # None /\ v.items # <<>>

\* toLower()
LowerChar(c) ==
    CASE c = "A" -> "a"
      [] c = "B" -> "b"
      [] c = "C" -> "c"
      [] c = "E" -> "e"
      [] c = "P" -> "p"
      [] OTHER -> c

toLower(text) == [i \in DOMAIN text |-> LowerChar(text[i])]

\* toString() of a number: its decimal digits
RECURSIVE Digits(_)
Digits(n) ==
    LET d == <<"0", "1", "2", "3", "4", "5", "6", "7", "8", "9">>
    IN IF n < 10 THEN <<d[n + 1]>> ELSE Digits(n \div 10) \o <<d[(n % 10) + 1]>>

\* toString(v), a Str value or null
toString(v) ==
    CASE v.k = "str" -> v
      [] v.k = "int" -> Str(Digits(v.n))
      [] v.k = "bool" -> Str(IF v.b THEN <<"t", "r", "u", "e">>
                                     ELSE <<"f", "a", "l", "s", "e">>)
      [] OTHER -> Null

\* str.split(): the maximal runs of non-whitespace characters
RECURSIVE SplitFrom(_, _, _)
SplitFrom(text, i, word) ==
    IF i > Len(text) THEN (IF word = <<>> THEN <<>> ELSE <<word>>)
    ELSE IF text[i] = " "
         THEN (IF word = <<>> THEN <<>> ELSE <<word>>) \o SplitFrom(text, i + 1, <<>>)
         ELSE SplitFrom(text, i + 1, Append(word, text[i]))

Split(text) == SplitFrom(text, 1, <<>>)

\* hay CONTAINS needle
Contains(hay, needle) ==
    \E i \in 1..(Len(hay) - Len(needle) + 1) :
        SubSeq(hay, i, i + Len(needle) - 1) = needle

\* toLower(toString(n.prop)) CONTAINS toLower($word_i), for some i
WordClause(st, n, prop, words) ==
    LET text == toString(Prop(st, n, prop))
    IN /\ text # Null
       /\ \E i \in DOMAIN words : Contains(toLower(text.s), toLower(words[i]))

\* The string literal 'term' as the query parser reads it: a backslash escapes
\* the next character, an unescaped quote ends the literal.  A literal that ends
\* before the text does leaves text the parser rejects.
RECURSIVE ParseLiteralFrom(_, _, _)
ParseLiteralFrom(text, i, acc) ==
    IF i > Len(text) THEN [ok |-> FALSE, s |-> acc]
    ELSE IF text[i] = "'" THEN [ok |-> i = Len(text), s |-> acc]
    ELSE IF text[i] = "\\"
         THEN (IF i + 1 <= Len(text) /\ text[i + 1] \in {"\\", "'"}
               THEN ParseLiteralFrom(text, i + 2, Append(acc, text[i + 1]))
               ELSE [ok |-> FALSE, s |-> acc])
    ELSE ParseLiteralFrom(text, i + 1, Append(acc, text[i]))

\* f"n.{prop} = '{search_term}'"
Literal(term) ==
    LET quoted == <<"'">> \o term \o <<"'">>
    IN IF Head(quoted) = "'" THEN ParseLiteralFrom(quoted, 2, <<>>)
       ELSE [ok |-> FALSE, s |-> <<>>]

\* n.prop = 'term'
EqualsClause(st, n, prop, literal) == Prop(st, n, prop) = Str(literal.s)

\* n[prop] =~ "(?i).*term.*" : the term is read as a pattern, in which
\* "." stands for any character; the whole value must match
RegexClause(st, n, prop, term) ==
    LET v == Prop(st, n, prop)
    IN /\ v.k = "str"
       /\ \E i \in 0..(Len(v.s) - Len(term)) :
            \A j \in 1..Len(term) :
                term[j] = "." \/ LowerChar(term[j]) = LowerChar(v.s[i + j])

\* The WHERE part: does the built query parse, and does node n satisfy it
WhereParses(request) ==
    IF TruthyList(request.properties) /\ TruthyStr(request.search_term)
    THEN IF request.fuzzy_match
         THEN Split(request.search_term.s) # <<>>
         ELSE Literal(request.search_term.s).ok
    ELSE TRUE

\* A variant whose existence clause joins the not-null checks with AND
Where_AllListed(st, n, request) ==
    IF TruthyList(request.properties)
    THEN IF ~TruthyStr(request.search_term)
         THEN \A i \in DOMAIN request.properties.items :
                 Prop(st, n, request.properties.items[i]) # Null
         ELSE IF request.fuzzy_match
         THEN \E i \in DOMAIN request.properties.items :
                 WordClause(st, n, request.properties.items[i],
                            Split(request.search_term.s))
         ELSE \E i \in DOMAIN request.properties.items :
                 EqualsClause(st, n, request.properties.items[i],
                              Literal(request.search_term.s))
    ELSE IF TruthyStr(request.search_term)
    THEN IF request.fuzzy_match
         THEN \E prop \in DOMAIN st.nodes[n].props :
                 RegexClause(st, n, prop, request.search_term.s)
         ELSE \E prop \in DOMAIN st.nodes[n].props :
                 Prop(st, n, prop) = request.search_term
    ELSE TRUE

Where(st, n, request) ==
    IF TruthyList(request.properties)
    THEN IF ~TruthyStr(request.search_term)
         THEN \E i \in DOMAIN request.properties.items :
                 Prop(st, n, request.properties.items[i]) # Null
         ELSE IF request.fuzzy_match
         THEN \E i \in DOMAIN request.properties.items :
                 WordClause(st, n, request.properties.items[i],
                            Split(request.search_term.s))
         ELSE \E i \in DOMAIN request.properties.items :
                 EqualsClause(st, n, request.properties.items[i],
                              Literal(request.search_term.s))
    ELSE IF TruthyStr(request.search_term)
    THEN IF request.fuzzy_match
         THEN \E prop \in DOMAIN st.nodes[n].props :
                 RegexClause(st, n, prop, request.search_term.s)
         ELSE \E prop \in DOMAIN st.nodes[n].props :
                 Prop(st, n, prop) = request.search_term
    ELSE TRUE

\* A variant that matches on the Entity label alone
TypeMatch_EntityOnly(st, request) ==
    {n \in DOMAIN st.nodes : "Entity" \in st.nodes[n].labels}

\* MATCH (n:Entity) or MATCH (n:Entity:Type)
TypeMatch(st, request) ==
    LET type_match == {"Entity"} \cup
            (IF request.entity_type # None /\ request.entity_type.name # ""
             THEN {request.entity_type.name} ELSE {})
    IN {n \in DOMAIN st.nodes : type_match \subseteq st.nodes[n].labels}

\* labels(related)[0] : labels are listed in the order the store first saw them
LabelRank(label) ==
    CASE label = "Entity" -> 0
      [] label = "Person" -> 1
      [] label = "Company" -> 2
      [] OTHER -> 3

FirstLabel(labels) ==
    IF labels = {} THEN Null
    ELSE Name(CHOOSE l \in labels : \A m \in labels : LabelRank(l) <= LabelRank(m))

\* OPTIONAL MATCH (n)-[r]-(related)
\* WITH n, collect({type, direction, node: {id, type, properties}}) as rels
RelEntry(st, n, r) ==
    LET related == IF st.rels[r].from = n THEN st.rels[r].to ELSE st.rels[r].from
    IN [type |-> Name(st.rels[r].type),
        direction |-> IF st.rels[r].from = n THEN "outgoing" ELSE "incoming",
        node |-> [id |-> Prop(st, related, "id"),
                  type |-> FirstLabel(st.nodes[related].labels),
                  properties |-> Map(st.nodes[related].props)]]

\* The entry collected from the null r of an OPTIONAL MATCH that found nothing
NullRelEntry ==
    [type |-> Null,
     direction |-> "incoming",
     node |-> [id |-> Null, type |-> Null, properties |-> Null]]

Rels(st, n) ==
    IF Incident(st, n) = {} THEN <<NullRelEntry>>
    ELSE LET rs == SetToSeq(Incident(st, n))
         IN [i \in DOMAIN rs |-> RelEntry(st, n, rs[i])]

\* One result row per matched node, in the store's match order
SearchRow(st, n, request) ==
    [id |-> Prop(st, n, "id"),
     type |-> st.nodes[n].labels,
     properties |-> st.nodes[n].props,
     relationships |-> IF request.include_relationships
                       THEN List(Rels(st, n)) ELSE None]

search_entities_impl(st, request) ==
    LET matched == SetToSeq({n \in TypeMatch(st, request) : Where(st, n, request)})
    IN [st |-> st,
        result |-> [results |-> [i \in DOMAIN matched |->
                                    SearchRow(st, matched[i], request)]]]

\* The tool wrapper: each entity as a dict; the relationships key is left out
\* (None here) when the entity's relationships are None or an empty list
search_entities(st, request) ==
    LET r == search_entities_impl(st, request)
        Dict(entity) ==
            [id |-> entity.id,
             type |-> entity.type,
             properties |-> entity.properties,
             relationships |-> IF entity.relationships \in {None, List(<<>>)}
                               THEN None ELSE entity.relationships]
    IN [st |-> r.st,
        result |-> [results |-> [i \in DOMAIN r.result.results |->
                                    Dict(r.result.results[i])]]]

----------------------------------------------------------------------------
(* introspect_schema *)

SchemaIntrospectionResult(node_labels, relationship_types, node_properties, relationship_properties) ==
    [node_labels |-> node_labels,
     relationship_types |-> relationship_types,
     node_properties |-> node_properties,
     relationship_properties |-> relationship_properties]

\* CALL db.labels() : the labels of the nodes in the store
LabelsQuery(st) == UNION {st.nodes[n].labels : n \in DOMAIN st.nodes}

\* CALL db.relationshipTypes()
RelTypesQuery(st) == {st.rels[r].type : r \in DOMAIN st.rels}

\* The label is pasted into MATCH (n:<label>) as it is: the query parses when
\* the label is a plain identifier
LabelIdentifiers == {"Entity", "Person", "Company"}

LabelQueriesParse(st) == LabelsQuery(st) \subseteq LabelIdentifiers

\* MATCH (n:<label>) UNWIND keys(n) as prop WITH DISTINCT prop
\* RETURN collect(prop)
NodePropsQuery(st, label) ==
    UNION {DOMAIN st.nodes[n].props :
              n \in {m \in DOMAIN st.nodes : label \in st.nodes[m].labels}}

\* MATCH ()-[r:<type>]->() UNWIND keys(r) ... : create_relations stores no
\* property on a relationship
RelPropsQuery(st, rel_type) == {}

introspect_schema_impl(st) ==
    SchemaIntrospectionResult(
        LabelsQuery(st),
        RelTypesQuery(st),
        [label \in LabelsQuery(st) |-> NodePropsQuery(st, label)],
        [rel_type \in RelTypesQuery(st) |-> RelPropsQuery(st, rel_type)])

\* The tool wrapper
introspect_schema(st) == [schema |-> introspect_schema_impl(st)]

----------------------------------------------------------------------------
(* The tool calls *)

\* The server handles one call at a time: a call starts when no call is in
\* progress (outcome = "idle"), runs to its end, and its result is handed back
\* by Respond before the next call starts.
Begins == outcome = "idle"

\* driver.session() hands out a new, open session
driver_session == "open"

\* A variant of the session block that is closed by hand at the end of the
\* block: an exception leaves the block before the close
AsyncWith_ClosedAtEnd(entered, exit) ==
    IF exit = "raise" THEN entered ELSE "closed"

\* async with driver.session() as session: the block is left by a return or by
\* an exception, and the session is closed on the way out in both cases
AsyncWith(entered, exit) == "closed"

Returns(op, args, r) ==
    /\ nodes' = r.st.nodes
    /\ rels' = r.st.rels
    /\ call' = [op |-> op, args |-> args]
    /\ pre' = Store(nodes, rels)
    /\ outcome' = "return"
    /\ result' = r.result
    /\ session' = AsyncWith(driver_session, "return")

Raises(op, args, st) ==
    /\ nodes' = st.nodes
    /\ rels' = st.rels
    /\ call' = [op |-> op, args |-> args]
    /\ pre' = Store(nodes, rels)
    /\ outcome' = "raise"
    /\ result' = None
    /\ session' = AsyncWith(driver_session, "raise")

CreateEntities(entities) ==
    /\ Begins
    /\ Cardinality(DOMAIN nodes) + Len(entities) <= MaxNodes
    /\ Returns("create_entities", [entities |-> entities],
               create_entities_impl(Store(nodes, rels), entities))

CreateRelations(relations) ==
    /\ Begins
    /\ RelBatchFits(Store(nodes, rels), relations)
    /\ Returns("create_relations", [relations |-> relations],
               create_relations_impl(Store(nodes, rels), relations))

UpdateEntities(requests) ==
    /\ Begins
    /\ Returns("update_entities", [updates |-> requests],
               update_entities_impl(Store(nodes, rels), requests))

DeleteEntities(requests, dry_run) ==
    /\ Begins
    /\ Returns("delete_entities", [requests |-> requests, dry_run |-> dry_run],
               delete_entities_impl(Store(nodes, rels), requests, dry_run))

SearchEntities(request) ==
    /\ Begins
    /\ IF WhereParses(request)
       THEN Returns("search_entities", [request |-> request],
                    search_entities(Store(nodes, rels), request))
       ELSE Raises("search_entities", [request |-> request], Store(nodes, rels))

IntrospectSchema ==
    /\ Begins
    /\ IF LabelQueriesParse(Store(nodes, rels))
       THEN Returns("introspect_schema", [random_string |-> ""],
                    [st |-> Store(nodes, rels),
                     result |-> introspect_schema(Store(nodes, rels))])
       ELSE Raises("introspect_schema", [random_string |-> ""], Store(nodes, rels))

\* The tool wrapper hands the result to the caller; the server is idle again
Respond ==
    /\ outcome # "idle"
    /\ outcome' = "idle"
    /\ call' = [op |-> "none"]
    /\ pre' = EmptyStore
    /\ result' = None
    /\ session' = "none"
    /\ UNCHANGED <<nodes, rels>>

----------------------------------------------------------------------------
(* Inputs *)

SeqsUpTo(S, n) == UNION {[1..m -> S] : m \in 1..n}

Ids == {<<"a">>, <<"b">>}

CreateRequests ==
    {[type |-> "Person", properties |-> ("id" :> Str(id))] : id \in Ids}
    \cup {[type |-> "Person", properties |-> EmptyMap]}

RelationRequests ==
    {[type |-> "KNOWS", from_id |-> f, to_id |-> t] : f \in Ids, t \in Ids}

UpdateRequest(id, properties, remove_properties, add_labels, remove_labels) ==
    [id |-> id, properties |-> properties, remove_properties |-> remove_properties,
     add_labels |-> add_labels, remove_labels |-> remove_labels]

UpdateRequests ==
    {UpdateRequest(p[1], ("id" :> Str(p[2])), {}, {}, {}) :
        p \in {q \in Ids \X Ids : q[1] # q[2]}}
    \cup {UpdateRequest(id, EmptyMap, {}, {}, {"Entity"}) : id \in Ids}
    \cup {UpdateRequest(id, EmptyMap, {"first name"}, {}, {}) : id \in Ids}

DeleteRequests == {[id |-> id, cascade |-> c] : id \in Ids, c \in BOOLEAN}

\* Inputs of the search specification: names with upper and lower case, a
\* quote, several words, and a number
SearchIds == {<<"A", "b">>, <<"b">>}

SearchCreateRequests ==
    {[type |-> "Person", properties |-> ("name" :> Str(<<"A", "b">>))],
     [type |-> "Person",
      properties |-> ("name" :> Str(<<"a", "'">>) @@ "age" :> IntV(7))],
     [type |-> "Company",
      properties |-> ("id" :> Str(<<"b">>) @@ "name" :> Str(<<"b", " ", "a">>))]}

SearchRelationRequests ==
    {[type |-> "KNOWS", from_id |-> f, to_id |-> <<"b">>] : f \in SearchIds}

SearchUpdateRequests ==
    {UpdateRequest(<<"b">>, EmptyMap, {}, {}, {"Entity"})}

SearchTerms ==
    {None, Str(<<>>), Str(<<" ">>),
     Str(<<"a">>), Str(<<"B">>), Str(<<"a", "b">>), Str(<<"A", "b">>),
     Str(<<"7", " ", "b">>), Str(<<"b", " ", "a">>),
     Str(<<"a", "'">>), Str(<<".">>), Str(<<"7">>)}

SearchProperties ==
    {None, List(<<>>), List(<<"name">>), List(<<"age">>), List(<<"age", "name">>)}

SearchTypes == {None, Name("Person")}

SearchRequests ==
    {SearchEntityRequest(t, ty, ps, ir, fz) :
        t \in SearchTerms, ty \in SearchTypes, ps \in SearchProperties,
        ir \in BOOLEAN, fz \in BOOLEAN}

\* Inputs of the session specification: every tool, with requests that end
\* in a result, in a reported failure and in an exception
SessionUpdateRequests ==
    {UpdateRequest(<<"a">>, EmptyMap, {}, {"Big Co"}, {}),
     UpdateRequest(<<"a">>, EmptyMap, {"first name"}, {}, {}),
     UpdateRequest(<<"c">>, ("age" :> IntV(8)), {}, {}, {})}

SessionDeleteRequests ==
    {[id |-> id, cascade |-> c] : id \in {<<"a">>, <<"c">>}, c \in BOOLEAN}

SessionSearchRequests ==
    {SearchEntityRequest(None, None, None, TRUE, TRUE),
     SearchEntityRequest(Str(<<"n">>), None, List(<<"name">>), FALSE, TRUE),
     SearchEntityRequest(Str(<<" ">>), None, List(<<"name">>), FALSE, TRUE)}

\* Inputs of the update specification: an entity with several properties, and
\* requests that set, remove, add and drop at once
UpdateCreateRequests ==
    {[type |-> "Person",
      properties |-> ("id" :> Str(<<"a">>) @@ "name" :> Str(<<"n">>) @@ "age" :> IntV(7))],
     [type |-> "Company", properties |-> ("id" :> Str(<<"b">>))]}

UpdateRelationRequests ==
    {[type |-> "KNOWS", from_id |-> <<"a">>, to_id |-> <<"b">>]}

RichUpdateRequests ==
    UNION {{UpdateRequest(id, ("name" :> Str(<<"x">>)), {"age"}, {"Company"}, {"Person"}),
            UpdateRequest(id, EmptyMap, {"name"}, {}, {"Company"}),
            UpdateRequest(id, ("age" :> IntV(8)), {}, {"Person"}, {}),
            UpdateRequest(id, ("name" :> Str(<<"x">>)), {"name"}, {}, {})} : id \in Ids}

----------------------------------------------------------------------------
(* Specification *)

Init ==
    /\ nodes = EmptyMap
    /\ rels = EmptyMap
    /\ call = [op |-> "none"]
    /\ pre = EmptyStore
    /\ outcome = "idle"
    /\ result = None
    /\ session = "none"

Next ==
    \/ \E entities \in SeqsUpTo(CreateRequests, MaxBatch) : CreateEntities(entities)
    \/ \E relations \in SeqsUpTo(RelationRequests, MaxBatch) : CreateRelations(relations)
    \/ \E requests \in SeqsUpTo(UpdateRequests, MaxBatch) : UpdateEntities(requests)
    \/ \E requests \in SeqsUpTo(DeleteRequests, MaxBatch) \cup {<<>>}, dry_run \in BOOLEAN :
          DeleteEntities(requests, dry_run)
    \/ Respond

Spec == Init /\ [][Next]_vars

NextSearch ==
    \/ \E entities \in SeqsUpTo(SearchCreateRequests, MaxBatch) : CreateEntities(entities)
    \/ \E relations \in SeqsUpTo(SearchRelationRequests, 1) : CreateRelations(relations)
    \/ \E requests \in SeqsUpTo(SearchUpdateRequests, 1) : UpdateEntities(requests)
    \/ \E request \in SearchRequests : SearchEntities(request)
    \/ Respond

SpecSearch == Init /\ [][NextSearch]_vars

NextUpdate ==
    \/ \E entities \in SeqsUpTo(UpdateCreateRequests, 1) : CreateEntities(entities)
    \/ \E relations \in SeqsUpTo(UpdateRelationRequests, 1) : CreateRelations(relations)
    \/ \E requests \in SeqsUpTo(RichUpdateRequests, 1) : UpdateEntities(requests)
    \/ Respond

SpecUpdate == Init /\ [][NextUpdate]_vars

NextSession ==
    \/ \E entities \in SeqsUpTo(UpdateCreateRequests, 1) : CreateEntities(entities)
    \/ \E relations \in SeqsUpTo(UpdateRelationRequests, 1) : CreateRelations(relations)
    \/ \E requests \in SeqsUpTo(SessionUpdateRequests, 1) : UpdateEntities(requests)
    \/ \E requests \in SeqsUpTo(SessionDeleteRequests, 1), dry_run \in BOOLEAN :
          DeleteEntities(requests, dry_run)
    \/ \E request \in SessionSearchRequests : SearchEntities(request)
    \/ IntrospectSchema
    \/ Respond

SpecSession == Init /\ [][NextSession]_vars

----------------------------------------------------------------------------
(* Vocabulary of the properties: the store read directly, not through the *)
(* operators of the tools                                                  *)

Cur == Store(nodes, rels)

IsCall(op) == outcome # "idle" /\ call.op = op

DelIds == {call.args.requests[i].id : i \in DOMAIN call.args.requests}
DelCascade == \E i \in DOMAIN call.args.requests : call.args.requests[i].cascade
DelDryRun == call.args.dry_run

\* node n has an id, and it is one of S
IdIn(st, n, S) ==
    /\ "id" \in DOMAIN st.nodes[n].props
    /\ st.nodes[n].props["id"] \in {Str(id) : id \in S}

\* the entities S names
EntitiesIn(st, S) ==
    {n \in DOMAIN st.nodes : "Entity" \in st.nodes[n].labels /\ IdIn(st, n, S)}

RelsOf(st, n) == {r \in DOMAIN st.rels : n \in {st.rels[r].from, st.rels[r].to}}

\* the relationships of the entities S names
RelsOfAll(st, S) == UNION {RelsOf(st, n) : n \in EntitiesIn(st, S)}

\* the relationships of those entities with exactly one endpoint in S
OrphanedBy(st, S) ==
    {r \in RelsOfAll(st, S) :
        IdIn(st, st.rels[r].from, S) # IdIn(st, st.rels[r].to, S)}

Removed == DOMAIN pre.nodes \ DOMAIN nodes

EntityView(st, n) ==
    [id |-> IF "id" \in DOMAIN st.nodes[n].props THEN st.nodes[n].props["id"] ELSE Null,
     type |-> st.nodes[n].labels,
     properties |-> st.nodes[n].props]

RelView(st, r) ==
    [type |-> Name(st.rels[r].type),
     from |-> EntityView(st, st.rels[r].from).id,
     to |-> EntityView(st, st.rels[r].to).id,
     properties |-> Map(EmptyMap)]

----------------------------------------------------------------------------
(* delete_entities: properties *)

C3_CascadeCompleteness ==
    (IsCall("delete_entities") /\ ~DelDryRun /\ DelCascade
        /\ EntitiesIn(pre, DelIds) # {}) =>
        /\ EntitiesIn(Cur, DelIds) = {}
        /\ RelsOfAll(pre, DelIds) \cap DOMAIN rels = {}
        /\ \A n \in DOMAIN pre.nodes \ EntitiesIn(pre, DelIds) :
              n \in DOMAIN nodes /\ nodes[n] = pre.nodes[n]

\* a cascade that removes an incoming relationship from an entity that stays
C3_Witness ==
    /\ IsCall("delete_entities") /\ ~DelDryRun /\ DelCascade
    /\ \E r \in OrphanedBy(pre, DelIds) :
          /\ pre.rels[r].to \in EntitiesIn(pre, DelIds)
          /\ pre.rels[r].from \in DOMAIN nodes
    /\ RelsOfAll(pre, DelIds) \ OrphanedBy(pre, DelIds) # {}

RelationshipLists(res) ==
    {res.deleted_relationships}
    \cup (IF res.impacted_relationships = None THEN {}
          ELSE {res.impacted_relationships.items})

\* C5  The result exposes the orphaned subset: whenever a relationship has
\* exactly one endpoint in S, the result of a dry run and the failure result of
\* a delete with cascade=false carry a non-empty list holding exactly the
\* orphaned relationships.
C5_OrphanedExposed ==
    (IsCall("delete_entities") /\ outcome = "return"
        /\ (DelDryRun \/ ~DelCascade)
        /\ OrphanedBy(pre, DelIds) # {}) =>
        {RelView(pre, r) : r \in OrphanedBy(pre, DelIds)} \in RelationshipLists(result)

C7_AllOrNothing ==
    (IsCall("delete_entities") /\ ~DelDryRun) =>
        \/ EntitiesIn(pre, DelIds) \subseteq Removed
        \/ EntitiesIn(pre, DelIds) \cap Removed = {}

\* C8  Faithful report: when delete_entities with dry_run=false returns
\* success=true, deleted_entities lists exactly the entities the call removed,
\* and deleted_relationships is empty when cascade=false.
C8_FaithfulReport ==
    (IsCall("delete_entities") /\ ~DelDryRun /\ outcome = "return" /\ result.success) =>
        /\ result.deleted_entities = {EntityView(pre, n) : n \in Removed}
        /\ ~DelCascade => result.deleted_relationships = {}

----------------------------------------------------------------------------
(* search_entities: properties *)

SearchReq == call.args.request

EntityNodes(st) == {n \in DOMAIN st.nodes : "Entity" \in st.nodes[n].labels}

\* id, type and properties of a result row
RowView(row) == [id |-> row.id, type |-> row.type, properties |-> row.properties]

\* the rows list every node of N once, and nothing else
ListsExactly(rows, st, N) ==
    LET views == {EntityView(st, n) : n \in N} \cup {RowView(rows[i]) : i \in DOMAIN rows}
    IN \A v \in views :
          Cardinality({i \in DOMAIN rows : RowView(rows[i]) = v})
             = Cardinality({n \in N : EntityView(st, n) = v})

\* C9  Search without filters: with no search_term, no entity_type, and
\* properties absent or an empty list, search_entities returns every node
\* carrying the Entity label, each exactly once, and nothing else.
C9_SearchNoFilters ==
    (IsCall("search_entities")
        /\ SearchReq.search_term = None
        /\ SearchReq.entity_type = None
        /\ SearchReq.properties \in {None, List(<<>>)}) =>
        /\ outcome = "return"
        /\ ListsExactly(result.results, pre, EntityNodes(pre))

\* an empty properties list, relationships included, in a store holding two
\* entities and a node that is no entity
C9_Witness ==
    /\ IsCall("search_entities")
    /\ SearchReq.search_term = None
    /\ SearchReq.entity_type = None
    /\ SearchReq.properties = List(<<>>)
    /\ SearchReq.include_relationships
    /\ Cardinality(EntityNodes(pre)) = 2
    /\ DOMAIN pre.nodes \ EntityNodes(pre) # {}
    /\ DOMAIN pre.rels # {}

\* the text of a value: a string as it is, a number as its digits
TextOf(v) ==
    CASE v.k = "str" -> v.s
      [] v.k = "int" -> Digits(v.n)
      [] v.k = "bool" -> (IF v.b THEN <<"t", "r", "u", "e">>
                          ELSE <<"f", "a", "l", "s", "e">>)
      [] OTHER -> <<>>

\* hay contains needle, ignoring case
ContainsNoCase(hay, needle) ==
    \E i \in 0..(Len(hay) - Len(needle)) :
        \A j \in 1..Len(needle) : LowerChar(hay[i + j]) = LowerChar(needle[j])

\* the whitespace-separated words of a text
WordsOf(text) ==
    {SubSeq(text, i, j) : i \in 1..Len(text), j \in 1..Len(text)}
    \cap {SubSeq(text, p[1], p[2]) :
            p \in {q \in (1..Len(text)) \X (1..Len(text)) :
                     /\ q[1] <= q[2]
                     /\ \A x \in q[1]..q[2] : text[x] # " "
                     /\ (q[1] = 1 \/ text[q[1] - 1] = " ")
                     /\ (q[2] = Len(text) \/ text[q[2] + 1] = " ")}}

\* the nodes a search with this entity_type ranges over
OfType(st, type) ==
    {n \in EntityNodes(st) : type # None => type.name \in st.nodes[n].labels}

\* C10  Search with properties and a term, for every non-empty term and
\* non-empty property list: in fuzzy mode an entity matches iff a listed
\* property has a value whose text contains, ignoring case, a word of the
\* term; in exact mode iff a listed property equals the whole term.
C10_PropertyTermSearch ==
    (IsCall("search_entities")
        /\ SearchReq.properties \notin {None, List(<<>>)}
        /\ SearchReq.search_term \notin {None, Str(<<>>)}) =>
        /\ outcome = "return"
        /\ ListsExactly(result.results, pre,
              {n \in OfType(pre, SearchReq.entity_type) :
                 \E p \in Range(SearchReq.properties.items) :
                    /\ p \in DOMAIN pre.nodes[n].props
                    /\ IF SearchReq.fuzzy_match
                       THEN \E w \in WordsOf(SearchReq.search_term.s) :
                               ContainsNoCase(TextOf(pre.nodes[n].props[p]), w)
                       ELSE pre.nodes[n].props[p] = SearchReq.search_term})

\* The same for the terms the built query can carry: a term with a word in
\* fuzzy mode, a term without quote or backslash in exact mode
C10_Carried ==
    (IsCall("search_entities")
        /\ SearchReq.properties \notin {None, List(<<>>)}
        /\ SearchReq.search_term \notin {None, Str(<<>>)}
        /\ IF SearchReq.fuzzy_match
           THEN WordsOf(SearchReq.search_term.s) # {}
           ELSE Range(SearchReq.search_term.s) \cap {"'", "\\"} = {}) =>
        /\ outcome = "return"
        /\ ListsExactly(result.results, pre,
              {n \in OfType(pre, SearchReq.entity_type) :
                 \E p \in Range(SearchReq.properties.items) :
                    /\ p \in DOMAIN pre.nodes[n].props
                    /\ IF SearchReq.fuzzy_match
                       THEN \E w \in WordsOf(SearchReq.search_term.s) :
                               ContainsNoCase(TextOf(pre.nodes[n].props[p]), w)
                       ELSE pre.nodes[n].props[p] = SearchReq.search_term})


SearchRows == result.results

\* the characters a regular expression reads as operators
RegexOperators == {".", "*", "+", "?", "(", ")", "[", "]", "{", "}", "|", "^", "$", "\\"}

\* the entities of the requested type with a property holding the term:
\* as a substring ignoring case (fuzzy) or as the whole value (exact)
HoldTerm(st, request) ==
    {n \in OfType(st, request.entity_type) :
        \E p \in DOMAIN st.nodes[n].props :
            LET v == st.nodes[n].props[p]
            IN IF request.fuzzy_match
               THEN v.k = "str" /\ ContainsNoCase(v.s, request.search_term.s)
               ELSE v = request.search_term}

\* C11  Search with a term and no properties list: every property of the node
\* is scanned; in fuzzy mode an entity is returned iff some property value
\* contains the whole term ignoring case, in exact mode iff some property
\* value equals the term; no other entity is returned.
C11_TermAllProperties ==
    (IsCall("search_entities")
        /\ SearchReq.properties = None
        /\ SearchReq.search_term \notin {None, Str(<<>>)}) =>
        /\ outcome = "return"
        /\ ListsExactly(SearchRows, pre, HoldTerm(pre, SearchReq))

\* The same for the terms a pattern reads literally
C11_LiteralTerms ==
    (IsCall("search_entities")
        /\ SearchReq.properties = None
        /\ SearchReq.search_term \notin {None, Str(<<>>)}
        /\ Range(SearchReq.search_term.s) \cap RegexOperators = {}) =>
        /\ outcome = "return"
        /\ ListsExactly(SearchRows, pre, HoldTerm(pre, SearchReq))

\* the properties a search looks at: the listed ones, or all of the node's
ScannedProperties(st, n, request) ==
    IF request.properties \in {None, List(<<>>)} THEN DOMAIN st.nodes[n].props
    ELSE Range(request.properties.items) \cap DOMAIN st.nodes[n].props

\* what has to be contained: a word of the term when properties are listed,
\* the whole term otherwise
Needles(request) ==
    IF request.properties \in {None, List(<<>>)} THEN {request.search_term.s}
    ELSE WordsOf(request.search_term.s)

\* C12  Stringified matching: in every fuzzy search, with or without a
\* properties list, a value is turned into text before the containment test,
\* so an entity whose numeric or boolean property has a text form containing
\* the term is returned.
C12_StringifiedMatching ==
    (IsCall("search_entities") /\ outcome = "return"
        /\ SearchReq.fuzzy_match
        /\ SearchReq.search_term \notin {None, Str(<<>>)}) =>
        \A n \in OfType(pre, SearchReq.entity_type) :
            (\E p \in ScannedProperties(pre, n, SearchReq), w \in Needles(SearchReq) :
                ContainsNoCase(TextOf(pre.nodes[n].props[p]), w))
            => \E i \in DOMAIN SearchRows : RowView(SearchRows[i]) = EntityView(pre, n)

\* the rows that carry a label
RowsLabelled(rows, label) ==
    LET idx == SetToSeq({i \in DOMAIN rows : label \in rows[i].type})
    IN [k \in DOMAIN idx |-> rows[idx[k]]]

\* C13  Type filter: when a (non-empty) entity_type is given, every returned
\* entity carries the Entity label and a label equal to entity_type, and the
\* rows are those of the same search without entity_type that carry that
\* label: the type filter is conjoined with the term and property predicate.
C13_TypeFilter ==
    (IsCall("search_entities") /\ outcome = "return"
        /\ SearchReq.entity_type # None) =>
        /\ \A i \in DOMAIN SearchRows :
              {"Entity", SearchReq.entity_type.name} \subseteq SearchRows[i].type
        /\ SearchRows = RowsLabelled(
              search_entities(pre, [SearchReq EXCEPT !.entity_type = None]).result.results,
              SearchReq.entity_type.name)

\* a typed search with a term: an entity of the type is returned and an
\* entity of another type satisfies the same predicate
C13_Witness ==
    /\ IsCall("search_entities") /\ outcome = "return"
    /\ SearchReq.entity_type # None
    /\ SearchReq.search_term \notin {None, Str(<<>>)}
    /\ SearchRows # <<>>
    /\ Len(search_entities(pre, [SearchReq EXCEPT !.entity_type = None]).result.results)
          > Len(SearchRows)

EntryOf(st, n, r) ==
    LET other == IF st.rels[r].from = n THEN st.rels[r].to ELSE st.rels[r].from
    IN [type |-> Name(st.rels[r].type),
        direction |-> IF st.rels[r].from = n THEN "outgoing" ELSE "incoming",
        node |-> [id |-> EntityView(st, other).id,
                  type |-> FirstLabel(st.nodes[other].labels),
                  properties |-> Map(st.nodes[other].props)]]

\* the row's relationships hold one entry per relationship of node n
EntriesMatch(row, st, n) ==
    LET entries == IF row.relationships = None THEN <<>> ELSE row.relationships.items
        values == Range(entries) \cup {EntryOf(st, n, r) : r \in RelsOf(st, n)}
    IN \A v \in values :
          Cardinality({i \in DOMAIN entries : entries[i] = v})
             = Cardinality({r \in RelsOf(st, n) : EntryOf(st, n, r) = v})

\* C15  Relationship inclusion: with include_relationships=true each returned
\* entity carries exactly one entry per relationship incident to it, with
\* direction 'outgoing' iff the entity is the start node, and the connected
\* node's id, first label and properties; an entity without relationships
\* has no entries.
C15_RelationshipInclusion ==
    (IsCall("search_entities") /\ outcome = "return"
        /\ SearchReq.include_relationships) =>
        \E g \in [DOMAIN SearchRows -> EntityNodes(pre)] :
            /\ \A i, j \in DOMAIN SearchRows : g[i] = g[j] => i = j
            /\ \A i \in DOMAIN SearchRows :
                  /\ RowView(SearchRows[i]) = EntityView(pre, g[i])
                  /\ EntriesMatch(SearchRows[i], pre, g[i])

\* The same for the returned entities that have a relationship
C15_WithRelationships ==
    (IsCall("search_entities") /\ outcome = "return"
        /\ SearchReq.include_relationships) =>
        \E g \in [DOMAIN SearchRows -> EntityNodes(pre)] :
            /\ \A i, j \in DOMAIN SearchRows : g[i] = g[j] => i = j
            /\ \A i \in DOMAIN SearchRows :
                  /\ RowView(SearchRows[i]) = EntityView(pre, g[i])
                  /\ RelsOf(pre, g[i]) # {} => EntriesMatch(SearchRows[i], pre, g[i])


----------------------------------------------------------------------------
(* create_entities: properties *)

CreateReqs == call.args.entities

\* properties.id when supplied, otherwise properties.name
DerivedId(properties) ==
    IF "id" \in DOMAIN properties THEN properties["id"]
    ELSE IF "name" \in DOMAIN properties THEN properties["name"]
    ELSE Null

Added == DOMAIN nodes \ DOMAIN pre.nodes

\* C16  Entity creation: for every request (type, properties), create_entities
\* adds exactly one node carrying the Entity label and a label equal to type,
\* with id properties.id when supplied and properties.name otherwise; the
\* result has one entry per request, in request order, with that id and type.
C16_EntityCreation ==
    IsCall("create_entities") =>
        /\ outcome = "return"
        /\ \A n \in DOMAIN pre.nodes : n \in DOMAIN nodes /\ nodes[n] = pre.nodes[n]
        /\ rels = pre.rels
        /\ Cardinality(Added) = Len(CreateReqs)
        /\ \E g \in [DOMAIN CreateReqs -> Added] :
              /\ \A i, j \in DOMAIN CreateReqs : g[i] = g[j] => i = j
              /\ \A i \in DOMAIN CreateReqs :
                    /\ {"Entity", CreateReqs[i].type} \subseteq nodes[g[i]].labels
                    /\ EntityView(Cur, g[i]).id = DerivedId(CreateReqs[i].properties)
        /\ Len(result.result) = Len(CreateReqs)
        /\ \A i \in DOMAIN CreateReqs :
              /\ result.result[i].id = DerivedId(CreateReqs[i].properties)
              /\ result.result[i].type = Str(Chars(CreateReqs[i].type))

\* a batch with an id that differs from the name, and an id taken from the
\* name, added to a store that is not empty
C16_Witness ==
    /\ IsCall("create_entities")
    /\ DOMAIN pre.nodes # {}
    /\ \E i, j \in DOMAIN CreateReqs :
          /\ "id" \in DOMAIN CreateReqs[i].properties
          /\ CreateReqs[i].properties["id"] # CreateReqs[i].properties["name"]
          /\ "id" \notin DOMAIN CreateReqs[j].properties
          /\ CreateReqs[i].type # CreateReqs[j].type

\* the entities whose id is v
WithId(st, v) == {n \in EntityNodes(st) : EntityView(st, n).id = v}

\* the properties a created node holds: the payload, the id, the type text
StoredProperties(request) ==
    LET id == DerivedId(request.properties)
        keys == DOMAIN request.properties \cup {"type"}
                   \cup (IF id # Null THEN {"id"} ELSE {})
    IN [key \in keys |->
          IF key = "type" THEN Str(Chars(request.type))
          ELSE IF key = "id" THEN id
          ELSE request.properties[key]]

----------------------------------------------------------------------------
(* create_relations: properties *)

RelReqs == call.args.relations

\* both ids of the request name an entity
Present(st, request) ==
    /\ EntitiesIn(st, {request.from_id}) # {}
    /\ EntitiesIn(st, {request.to_id}) # {}

\* relationship r of the store is one the request asks for
Fulfils(st, r, request) ==
    /\ st.rels[r].type = request.type
    /\ st.rels[r].from \in EntitiesIn(st, {request.from_id})
    /\ st.rels[r].to \in EntitiesIn(st, {request.to_id})

\* C18  Relationship skip-on-missing-endpoint: a request of a create_relations
\* batch whose from or to id names no entity creates no relationship and no
\* entity and has no entry in the result; the call returns normally, and the
\* other requests are processed and listed in request order.
C18_SkipMissingEndpoint ==
    IsCall("create_relations") =>
        /\ outcome = "return"
        /\ nodes = pre.nodes
        /\ \A r \in DOMAIN pre.rels : r \in DOMAIN rels /\ rels[r] = pre.rels[r]
        /\ \A r \in DOMAIN rels \ DOMAIN pre.rels :
              \E i \in DOMAIN RelReqs :
                 Present(pre, RelReqs[i]) /\ Fulfils(Cur, r, RelReqs[i])
        /\ \A i \in DOMAIN RelReqs :
              Present(pre, RelReqs[i]) =>
                 \E r \in DOMAIN rels \ DOMAIN pre.rels : Fulfils(Cur, r, RelReqs[i])
        /\ LET kept == SelectSeq(RelReqs, LAMBDA request : Present(pre, request))
           IN result.result =
                 [k \in DOMAIN kept |-> [type |-> kept[k].type,
                                         from_id |-> Str(kept[k].from_id),
                                         to_id |-> Str(kept[k].to_id)]]

\* the first request misses an endpoint, the second is created
C18_Witness ==
    /\ IsCall("create_relations")
    /\ Len(RelReqs) = 2
    /\ ~Present(pre, RelReqs[1])
    /\ Present(pre, RelReqs[2])
    /\ Len(result.result) = 1
    /\ DOMAIN rels # DOMAIN pre.rels

----------------------------------------------------------------------------
(* update_entities: properties *)

UpdReqs == call.args.updates

Missing(st, requests) ==
    {requests[i].id : i \in {j \in DOMAIN requests : EntitiesIn(st, {requests[j].id}) = {}}}

C20_UpdatePartialFailure ==
    (IsCall("update_entities") /\ Missing(pre, UpdReqs) = {}
        /\ \E i \in DOMAIN UpdReqs : QueryFails(UpdReqs[i])) =>
        /\ outcome = "return"
        /\ ~result.success
        /\ result.errors # None
        /\ LET failed == SelectSeq(UpdReqs, LAMBDA request : QueryFails(request))
           IN result.errors.items =
                 [k \in DOMAIN failed |->
                     [error |-> "Failed to update entity", id |-> failed[k].id]]
        /\ LET others == SelectSeq(UpdReqs, LAMBDA request : ~QueryFails(request))
               alone == update_entities_impl(pre, others)
           IN /\ Cur = alone.st
              /\ result.updated_entities = alone.result.updated_entities

\* the first request fails, the second is applied and reported
C20_Witness ==
    /\ IsCall("update_entities")
    /\ Len(UpdReqs) = 2
    /\ QueryFails(UpdReqs[1])
    /\ ~QueryFails(UpdReqs[2])
    /\ ~result.success
    /\ Cur # pre
    /\ result.updated_entities # <<>>


C21_RemovesAbsent ==
    /\ IsCall("update_entities") /\ Len(UpdReqs) = 1
    /\ result.success
    /\ \E n \in EntitiesIn(pre, {UpdReqs[1].id}) :
          /\ UpdReqs[1].remove_properties # {}
          /\ UpdReqs[1].remove_properties \cap DOMAIN pre.nodes[n].props = {}
          /\ UpdReqs[1].remove_labels # {}
          /\ UpdReqs[1].remove_labels \cap pre.nodes[n].labels = {}


\* C22  The Entity label cannot be removed: an entity that carried the Entity
\* label before an update_entities call carries it afterwards, so in every
\* state every node created by create_entities and not deleted carries it.
C22_EntityLabelKept ==
    /\ IsCall("update_entities") =>
          \A n \in EntityNodes(pre) : n \in DOMAIN nodes /\ "Entity" \in nodes[n].labels
    /\ \A n \in DOMAIN nodes : "Entity" \in nodes[n].labels

----------------------------------------------------------------------------
(* delete_entities: impact analysis and batches *)

DelReqs == call.args.requests

\* C24  Orphan classification: the impact analysis calls an incident
\* relationship orphaned iff exactly one of its endpoint ids is in
\* entity_ids; a relationship with both endpoints in entity_ids, a self-loop
\* on a target included, is never orphaned, and the orphaned list is a subset
\* of the incident-relationship list.
C24_OrphanClassification ==
    IsCall("delete_entities") =>
        LET impact == _analyze_deletion_impact(pre, DelIds)
        IN /\ impact.orphaned_relations
                 = {RelView(pre, r) : r \in OrphanedBy(pre, DelIds)}
           /\ impact.orphaned_relations \subseteq impact.relations
           /\ \A r \in RelsOfAll(pre, DelIds) :
                 (IdIn(pre, pre.rels[r].from, DelIds) /\ IdIn(pre, pre.rels[r].to, DelIds))
                    => RelView(pre, r) \notin impact.orphaned_relations

\* a target with a self-loop and a relationship coming in from outside
C24_Witness ==
    /\ IsCall("delete_entities")
    /\ \E r \in RelsOfAll(pre, DelIds) : pre.rels[r].from = pre.rels[r].to
    /\ \E r \in OrphanedBy(pre, DelIds) :
          /\ ~IdIn(pre, pre.rels[r].from, DelIds)
          /\ IdIn(pre, pre.rels[r].to, DelIds)

\* C25  The impact relationship list is deduplicated by identity: the list
\* computed for a deletion (impacted_relationships in a dry run,
\* deleted_relationships with cascade) has one entry per distinct
\* relationship incident to a target, parallel relationships included, and
\* none for a target without relationships; with cascade its length is the
\* number of relationships removed.
C25_DedupByIdentity ==
    (IsCall("delete_entities") /\ outcome = "return") =>
        /\ DelDryRun =>
              Cardinality(result.impacted_relationships.items)
                 = Cardinality(RelsOfAll(pre, DelIds))
        /\ (~DelDryRun /\ DelCascade /\ result.success) =>
              /\ Cardinality(result.deleted_relationships)
                    = Cardinality(RelsOfAll(pre, DelIds))
              /\ Cardinality(result.deleted_relationships)
                    = Cardinality(DOMAIN pre.rels \ DOMAIN rels)

MixedFlags(requests) ==
    /\ \E i \in DOMAIN requests : requests[i].cascade
    /\ \E i \in DOMAIN requests : ~requests[i].cascade

\* C26  Batch-level cascade: the cascade flag is computed once per call, true
\* iff some request has cascade=true; for a batch with mixed flags, store and
\* result are those of the same batch with every cascade set to true.
C26_BatchCascade ==
    (IsCall("delete_entities") /\ MixedFlags(DelReqs)) =>
        LET all == [i \in DOMAIN DelReqs |-> [DelReqs[i] EXCEPT !.cascade = TRUE]]
            same == delete_entities_impl(pre, all, DelDryRun)
        IN /\ outcome = "return"
           /\ Cur = same.st
           /\ result = same.result

\* mixed flags, and the request without cascade names an entity whose
\* relationship the call removes
C26_Witness ==
    /\ IsCall("delete_entities") /\ ~DelDryRun
    /\ MixedFlags(DelReqs)
    /\ \E i \in DOMAIN DelReqs :
          /\ ~DelReqs[i].cascade
          /\ \E n \in EntitiesIn(pre, {DelReqs[i].id}) :
                n \in Removed /\ RelsOf(pre, n) # {}
    /\ DOMAIN rels # DOMAIN pre.rels

\* C27  "Entity not found" is reported only for missing entities: a
\* delete_entities call with dry_run=false returns that error only if no
\* entity has an id in entity_ids; when a target exists the call succeeds or
\* fails with the orphaned-relationships error.
C27_NotFoundOnlyWhenMissing ==
    (IsCall("delete_entities") /\ ~DelDryRun /\ outcome = "return"
        /\ EntitiesIn(pre, DelIds) # {}) =>
        \/ result.success
        \/ /\ result.errors # None
           /\ "Entity not found" \notin Range(result.errors.items)

\* C28  No dangling relationships: in every reachable state both endpoints of
\* every relationship are nodes of the store, and no delete removes an entity
\* while leaving one of its relationships behind.
C28_NoDanglingRelationships ==
    /\ \A r \in DOMAIN rels : {rels[r].from, rels[r].to} \subseteq DOMAIN nodes
    /\ IsCall("delete_entities") =>
          \A n \in Removed : RelsOf(pre, n) \cap DOMAIN rels = {}

\* a cascade removed an entity and its relationships, and a relationship of
\* another entity is still there
C28_Witness ==
    /\ IsCall("delete_entities") /\ ~DelDryRun
    /\ \E n \in Removed : RelsOf(pre, n) # {}
    /\ DOMAIN rels # {}

\* C29  Update success is complete: when update_entities returns
\* success=true, updated_entities has one entry for every request of the
\* batch, in request order; no request is silently skipped.
C29_UpdateComplete ==
    (IsCall("update_entities") /\ outcome = "return" /\ result.success) =>
        Len(result.updated_entities) = Len(UpdReqs)

\* C30  One edge per relation request: every create_relations request whose
\* endpoints resolve adds exactly one relationship, a request that does not
\* resolve adds none, so the number of relationships added by a call is the
\* length of its result list, also when several entities share an id.
C30_OneEdgePerRequest ==
    IsCall("create_relations") =>
        Cardinality(DOMAIN rels \ DOMAIN pre.rels) = Len(result.result)

\* The same in the stores where no two entities share an id
C30_UniqueIds ==
    (IsCall("create_relations")
        /\ \A n, m \in EntityNodes(pre) :
              EntityView(pre, n).id = EntityView(pre, m).id => n = m) =>
        Cardinality(DOMAIN rels \ DOMAIN pre.rels) = Len(result.result)


----------------------------------------------------------------------------
(* Sessions *)

C23_DryRun == IsCall("delete_entities") /\ DelDryRun /\ session = "closed"

C23_OrphanPrevention ==
    /\ IsCall("delete_entities") /\ outcome = "return" /\ ~DelDryRun
    /\ ~result.success /\ result.errors = List(<<ORPHAN_ERROR>>)
    /\ session = "closed"

C23_NotFound ==
    /\ IsCall("delete_entities") /\ outcome = "return" /\ ~DelDryRun
    /\ ~result.success /\ result.errors = List(<<NOT_FOUND_ERROR>>)
    /\ session = "closed"

C23_MissingIds ==
    /\ IsCall("update_entities") /\ outcome = "return"
    /\ Missing(pre, UpdReqs) # {}
    /\ session = "closed"

====
